---- MODULE Spec2Model ----
(***************************************************************************)
(* The teller tick engine: orchestrator/graph.py (four LangGraph nodes run *)
(* once per app.invoke), orchestrator/timeouts.py, fsm/guards.py,          *)
(* actions/livebank.py and llm_client/LLMDecider.py.                       *)
(*                                                                         *)
(* Python dict.get(k, default) is modelled by total records whose absent   *)
(* fields hold the default ("" for a missing string, 0 for a missing       *)
(* number, <<>> for a missing list).  The timer map is a sequence of       *)
(* [name, exp] entries because a Python dict keeps insertion order.        *)
(***************************************************************************)
EXTENDS Integers, Sequences, FiniteSets, TLC

\* ------------------------------------------------------------------ bounds
\* largest value the caller may write into session.now
MaxNow == 3

\* --------------------------------------------------------------- constants
\* stop_after_attempt(3) on _post_llm
MaxAttempts == 3
\* the limit of the wrong-code guard "ctx.otp_fail < 5"
OtpLimit == 5
\* the retry limit of the id_fail guard of the rule table
IdRetryLimit == 1
\* timeouts.OTP_no_input of the rule table, in clock units
IdleSecs == 2
\* secs of the start_timer actions of the rule table, in clock units
PrintSecs == 1

\* ------------------------------------------------------------ actions' shape
\* act.get("args", {}) with every args.get default filled in
NoArgs == [state |-> "", secs |-> 0, otp |-> ""]

Act(t, n) == [type |-> t, name |-> n, args |-> NoArgs]

StartTimer(st, secs) ==
    [type |-> "clock", name |-> "start_timer",
     args |-> [state |-> st, secs |-> secs, otp |-> ""]]

\* the default action of an unmatched transition
BackHome == Act("ui", "back_home")

\* ------------------------------------------------------------- rules' shape
\* a guard or after-effect expression over one named context field;
\* op = "" is the absent (or empty) expression
NoExpr == [field |-> "", op |-> "", val |-> 0]

Expr(f, o, v) == [field |-> f, op |-> o, val |-> v]

NoFallback == [present |-> FALSE, to |-> "", actions |-> <<>>]

Fallback(to, acts) == [present |-> TRUE, to |-> to, actions |-> acts]

\* a transition rule: to = "" is the absent `to`
Rule(g, a, acts, to, fb) ==
    [guard |-> g, after |-> a, actions |-> acts, to |-> to, fallback |-> fb]

Go(to, acts) == Rule(NoExpr, NoExpr, acts, to, NoFallback)

\* ------------------------------------------------------------ the rule table
\* fsm/rules.yaml: the states of the demo scenarios, the signals the demo
\* harness feeds, the actions of actions/livebank.py and the counters of the
\* initial context.  start_timer arms one timer per timed state: PRINTING,
\* CARD_PICKUP and DONE; the timer of BRANCH_SELECT is switched off (secs 0).
StateRules ==
    [START |->
        [reissue_card |-> Go("FACE", <<Act("ui", "show_face")>>),
         others       |-> Go("", <<Act("tts", "speak")>>),
         cancel       |-> Go("FAILED", <<BackHome>>)],
     FACE |->
        [face_ok   |-> Go("ID_SCAN", <<Act("ui", "show_id_scan")>>),
         face_fail |-> Go("FAILED", <<BackHome>>)],
     ID_SCAN |->
        [id_ok   |-> Go("NFC_READ", <<Act("ui", "show_nfc")>>),
         id_fail |-> Rule(Expr("id_retry", "<", IdRetryLimit),
                          Expr("id_retry", "+=", 1),
                          <<Act("tts", "speak")>>, "", NoFallback)],
     NFC_READ |->
        [nfc_ok |-> Go("CARD_SELECT", <<Act("ui", "show_card_select")>>)],
     CARD_SELECT |->
        [select_card_type |-> Go("ACCOUNT_SELECT", <<Act("ui", "show_accounts")>>),
         others           |-> Go("", <<Act("tts", "speak")>>)],
     ACCOUNT_SELECT |->
        [select_account |-> Go("STOCK_CHECK", <<Act("api", "check_card_stock")>>),
         _auto          |-> Go("", <<Act("tts", "speak")>>)],
     STOCK_CHECK |->
        [stock_ok  |-> Rule(NoExpr, Expr("id_retry", "=", 0),
                            <<Act("ui", "show_otp_send")>>, "OTP_SEND", NoFallback),
         stock_out |-> Go("BRANCH_SELECT", <<Act("ui", "show_branches"),
                                            StartTimer("BRANCH_SELECT", 0)>>)],
     BRANCH_SELECT |->
        [confirm_branch |-> Go("OTP_SEND", <<Act("ui", "show_otp_send")>>)],
     OTP_SEND |->
        [_auto |-> Go("OTP", <<Act("api", "send_otp"), Act("ui", "show_otp")>>)],
     OTP |->
        [provide_otp |-> Go("", <<Act("api", "verify_otp")>>),
         resend_otp  |-> Go("", <<Act("api", "resend_otp")>>),
         otp_ok      |-> Go("PRINTING", <<Act("api", "check_card_stock"),
                                          StartTimer("PRINTING", PrintSecs),
                                          Act("api", "print_card")>>),
         otp_wrong   |-> Rule(Expr("otp_fail", "<", OtpLimit),
                              Expr("otp_fail", "+=", 1),
                              <<Act("tts", "speak")>>, "",
                              Fallback("FAILED", <<Act("tts", "speak"), BackHome>>)),
         _timeout_no_input |-> Go("FAILED", <<BackHome>>)],
     PRINTING |->
        [printed    |-> Go("CARD_PICKUP", <<Act("ui", "show_pickup"),
                                            StartTimer("CARD_PICKUP", PrintSecs)>>),
         print_fail |-> Go("FAILED", <<BackHome>>),
         _timeout_PRINTING |-> Go("FAILED", <<BackHome>>)],
     CARD_PICKUP |->
        [card_taken |-> Go("DONE", <<Act("ui", "show_done"),
                                     StartTimer("DONE", PrintSecs)>>),
         _timeout_CARD_PICKUP |-> Go("RETRACTED", <<Act("api", "retract_card")>>)]]

RULES == [states |-> StateRules, timeouts |-> [OTP_no_input |-> IdleSecs]]

\* RULES.get("states", {}).get(state, {}): the empty mapping for a state
\* that has no rule set (DONE, FAILED, RETRACTED)
RulesOf(st) ==
    IF st \in DOMAIN RULES.states THEN RULES.states[st] ELSE <<>>

States == DOMAIN StateRules \cup {"DONE", "FAILED", "RETRACTED"}

\* the keys k of the rule table with k.startswith("_")
ReservedKeys ==
    {"_auto", "_timeout_no_input", "_timeout_PRINTING", "_timeout_CARD_PICKUP"}

_allowed_intents(st) == DOMAIN RulesOf(st) \ ReservedKeys

DEVICE_DRIVEN_STATES ==
    {"FACE", "ID_SCAN", "NFC_READ", "STOCK_CHECK", "BRANCH_SELECT",
     "OTP_SEND", "PRINTING", "CARD_PICKUP"}

\* ------------------------------------------------ orchestrator/timeouts.py
\* ensure_timer_ctx that always installs a new, empty map
ensure_timer_ctx_fresh(timers) == <<>>

\* ctx.get("timers"), installed as {} when the context has none: the map
\* the context already holds is handed back as it is
ensure_timer_ctx(timers) == timers

\* position of `name` in the timer map, 0 when it has no entry
TimerIndex(timers, name) ==
    IF \E i \in 1..Len(timers) : timers[i].name = name
    THEN CHOOSE i \in 1..Len(timers) : timers[i].name = name
    ELSE 0

HasTimer(timers, name) == TimerIndex(timers, name) # 0

\* timers.get(name): 0 stands for None
TimerGet(timers, name) ==
    IF HasTimer(timers, name) THEN timers[TimerIndex(timers, name)].exp ELSE 0

\* set_timer that reads the clock one second behind
set_timer_behind(timers, name, secs, now) ==
    IF HasTimer(timers, name)
    THEN [timers EXCEPT ![TimerIndex(timers, name)].exp = now - 1 + secs]
    ELSE Append(timers, [name |-> name, exp |-> now - 1 + secs])

\* set_timer that stores the duration instead of the absolute expiry
set_timer_relative(timers, name, secs, now) ==
    IF HasTimer(timers, name)
    THEN [timers EXCEPT ![TimerIndex(timers, name)].exp = secs]
    ELSE Append(timers, [name |-> name, exp |-> secs])

\* timers[name] = now + secs: an existing key keeps its position
set_timer(timers, name, secs, now) ==
    IF HasTimer(timers, name)
    THEN [timers EXCEPT ![TimerIndex(timers, name)].exp = now + secs]
    ELSE Append(timers, [name |-> name, exp |-> now + secs])

\* timers.pop(name, None)
clear_timer(timers, name) ==
    SelectSeq(timers, LAMBDA e : e.name # name)

\* ExpiredList that counts a timer as expired one second early
ExpiredListEarly(timers, now) ==
    SelectSeq(timers, LAMBDA e : e.exp # 0 /\ now + 1 >= e.exp)

\* ExpiredList that counts an entry without a value as expired
ExpiredListFalsy(timers, now) ==
    SelectSeq(timers, LAMBDA e : e.exp = 0 \/ now >= e.exp)

\* expired = [k for k, v in timers.items() if v and now >= v]
ExpiredList(timers, now) ==
    SelectSeq(timers, LAMBDA e : e.exp # 0 /\ now >= e.exp)

\* check_expired that returns the due timer inserted first
check_expired_first(timers, now) ==
    LET expired == ExpiredList(timers, now)
    IN  IF Len(expired) > 0 THEN expired[1].name ELSE ""

\* expired[-1] if expired else None ("" stands for None)
check_expired(timers, now) ==
    LET expired == ExpiredList(timers, now)
    IN  IF Len(expired) > 0 THEN expired[Len(expired)].name ELSE ""

\* ----------------------------------------------------------- fsm/guards.py
\* eval_guard with "<" read as "<="
eval_guard_inclusive(expr, ctx) ==
    IF expr.op = "" THEN TRUE
    ELSE CASE expr.op = "<"  -> ctx[expr.field] <= expr.val
           [] expr.op = ">=" -> ctx[expr.field] >= expr.val
           [] OTHER          -> FALSE

\* eval(expr, {}, {"ctx": proxy}) for a comparison over one context field
eval_guard(expr, ctx) ==
    IF expr.op = "" THEN TRUE
    ELSE CASE expr.op = "<"  -> ctx[expr.field] < expr.val
           [] expr.op = ">=" -> ctx[expr.field] >= expr.val
           [] OTHER          -> FALSE

\* apply_after whose writes land in a copy of the context
apply_after_copy(expr, ctx) == ctx

\* exec(expr, {}, {"ctx": proxy}): the proxy writes into the mapping itself
apply_after(expr, ctx) ==
    IF expr.op = "" THEN ctx
    ELSE CASE expr.op = "+=" -> [ctx EXCEPT ![expr.field] = @ + expr.val]
           [] expr.op = "="  -> [ctx EXCEPT ![expr.field] = expr.val]
           [] OTHER          -> ctx

\* -------------------------------------------------------- actions/livebank.py
\* the one-time codes of the demo scenarios
Codes == {"482913", "111111"}

\* len(otp) of the strings an otp argument can be
StrLen(s) == IF s = "" THEN 0 ELSE 6

\* what the process environment may hold: TAI_STOCK, TAI_PRINT, and the
\* code send_otp stores (TAI_OTP_FIXED or _gen_otp())
Envs == [stock : {"ok", "out"}, print : {"ok", "fail"}, otp : Codes]

\* _api(name, args, ctx): the context it leaves and the signal it returns
\* ("" stands for no signal)
_api(name, args, ctx, env) ==
    CASE name = "check_card_stock" ->
            [ctx |-> ctx,
             signal |-> IF env.stock = "ok" THEN "stock_ok" ELSE "stock_out"]
      [] name = "send_otp" ->
            [ctx |-> [ctx EXCEPT !.otp_expected = env.otp], signal |-> ""]
      [] name = "resend_otp" ->
            [ctx |-> [ctx EXCEPT !.otp_expected =
                         IF ctx.otp_expected # "" THEN @ ELSE env.otp],
             signal |-> ""]
      [] name = "verify_otp" ->
            LET otp == args.otp
                expected == ctx.otp_expected
                ok == IF expected # "" THEN otp = expected
                      ELSE StrLen(otp) \in {4, 6}
            IN  [ctx |-> ctx, signal |-> IF ok THEN "otp_ok" ELSE "otp_wrong"]
      [] name = "print_card" ->
            [ctx |-> ctx,
             signal |-> IF env.print = "ok" THEN "printed" ELSE "print_fail"]
      [] name = "retract_card" ->
            [ctx |-> ctx, signal |-> "timeout_retract"]
      [] OTHER -> [ctx |-> ctx, signal |-> ""]

\* run_action(act, ctx): ui and tts only log, any other type returns {}
run_action(act, ctx, env) ==
    IF act.type = "api" THEN _api(act.name, act.args, ctx, env)
    ELSE [ctx |-> ctx, signal |-> ""]

\* ---------------------------------------------- llm_client/LLMDecider.py
\* a key the JSON object does not have / a value that is not a string
Absent == "<absent>"

NonStr == "<nonstring>"

\* a response block: kind is "obj" (a dict), "nonobj" or "absent"
Resp(t, c) == [kind |-> "obj", type |-> t, content |-> c]

RespAbsent == [kind |-> "absent", type |-> Absent, content |-> Absent]

RespNonObj == [kind |-> "nonobj", type |-> Absent, content |-> Absent]

\* a JSON value as far as decide looks at it: a dict with its intent, params
\* ("empty", "object", "nonobj" or "absent"), response and meta, or a non-dict
Dict(i, p, r) ==
    [kind |-> "dict", intent |-> i, params |-> p, response |-> r, meta |-> "absent"]

NonDict ==
    [kind |-> "nondict", intent |-> Absent, params |-> "absent",
     response |-> RespAbsent, meta |-> "absent"]

\* the canned Decision of the `except` around _post_llm
CannedTransport ==
    [kind |-> "dict", intent |-> "cancel", params |-> "empty",
     response |-> Resp("text", "service_interrupted"), meta |-> "error"]

\* the canned Decision of the parse, non-object and schema failures
CannedInvalid(err) ==
    [kind |-> "dict", intent |-> "cancel", params |-> "empty",
     response |-> Resp("text", "invalid_output"), meta |-> err]

\* _extract_json(text): a text is its shape (what the two regular
\* expressions find in it) and the object its JSON denotes
_extract_json(text) ==
    CASE text.shape = "fence_obj" -> [ok |-> TRUE, value |-> text.obj]
      [] text.shape = "fence_bad" -> [ok |-> FALSE, value |-> NonDict]
      [] text.shape = "brace_obj" -> [ok |-> TRUE, value |-> text.obj]
      [] text.shape = "brace_bad" -> [ok |-> FALSE, value |-> NonDict]
      [] OTHER                    -> [ok |-> FALSE, value |-> NonDict]

\* validate(instance=decision, schema=self.schema) does not raise
SchemaValid(d) ==
    /\ d.intent \notin {Absent, NonStr}
    /\ d.params \in {"empty", "object"}
    /\ d.response.kind = "obj"
    /\ d.response.type \notin {Absent, NonStr}
    /\ d.response.content \notin {Absent, NonStr}

\* the `if self.strict:` block
StrictBlock(decision, allowed) ==
    IF decision.kind # "dict" THEN CannedInvalid("error")
    ELSE IF ~SchemaValid(decision) THEN CannedInvalid("error")
    ELSE LET d1 == IF decision.params \notin {"empty", "object"}
                   THEN [decision EXCEPT !.params = "empty"] ELSE decision
         IN  IF allowed # {} /\ d1.intent \notin allowed
             THEN [d1 EXCEPT !.intent = "cancel"] ELSE d1

\* the tail of decide: the response block is overwritten, or replaced
BlankResponse(decision) == [decision EXCEPT !.response = Resp("none", "")]

\* decide after a successful _post_llm: raised is TRUE when an exception
\* leaves decide (decision.get on a value that is not a dict)
DecideBody(data, strictMode, allowed) ==
    LET resp_is_str == ~data.isdict \/ data.resp.kind \in {"missing", "str"}
        text == IF data.isdict /\ data.resp.kind = "str" THEN data.resp.text
                ELSE [shape |-> "plain", obj |-> NonDict]
        ext == _extract_json(text)
        d0 == IF resp_is_str
              THEN IF ext.ok THEN ext.value ELSE CannedInvalid("error")
              ELSE data.resp.value
        d1 == IF strictMode THEN StrictBlock(d0, allowed) ELSE d0
    IN  IF d1.kind # "dict" THEN [raised |-> TRUE, decision |-> d1]
        ELSE [raised |-> FALSE, decision |-> BlankResponse(d1)]

\* ShouldRetry with the stop condition checked one attempt late
ShouldRetryOneMore(outcome, n) == outcome = "request_error" /\ n <= MaxAttempts

\* retry=retry_if_exception_type((requests.RequestException,)) with
\* stop=stop_after_attempt(3): another attempt follows attempt n
ShouldRetry(outcome, n) == outcome = "request_error" /\ n < MaxAttempts

\* what requests.post does at attempt n: the first env.fails attempts raise
\* a RequestException (connection error, timeout, raise_for_status), the
\* next one raises something else ("other_error") or returns a body ("ok")
AttemptOutcome(env, n) == IF n <= env.fails THEN "request_error" ELSE env.final

\* _post_llm under its retry decorator, from attempt n on: the log of the
\* attempts made, and whether the last one returned
RECURSIVE _post_llm(_, _, _)
_post_llm(env, n, log) ==
    LET outcome == AttemptOutcome(env, n)
    IN  IF outcome = "ok" THEN [ok |-> TRUE, log |-> Append(log, outcome)]
        ELSE IF ShouldRetry(outcome, n) THEN _post_llm(env, n + 1, Append(log, outcome))
        ELSE [ok |-> FALSE, log |-> Append(log, outcome)]

\* decide(state, allowed_intents, user_input, prompt_cfg)
decide(allowed, env, strictMode) ==
    LET post == _post_llm(env, 1, <<>>)
    IN  IF ~post.ok
        THEN [raised |-> FALSE, decision |-> CannedTransport, log |-> post.log]
        ELSE LET r == DecideBody(env.data, strictMode, allowed)
             IN  [raised |-> r.raised, decision |-> r.decision, log |-> post.log]

\* ------------------------------------------------- what the provider returns
\* intents the provider may name in state st: the allowed ones, a reserved
\* key, and two names that are no key of the state
IntentPool(st) == _allowed_intents(st) \cup {"cancel", "chitchat", "_auto"}

\* the objects the provider's text may denote: well-formed Decisions and
\* Decisions with one defect
ProviderObjs(st) ==
    {Dict(i, "empty", Resp("text", "hello")) : i \in IntentPool(st)}
    \cup {Dict("cancel", "object", Resp(t, "hello")) : t \in {"text", "none"}}
    \cup {Dict(i, "empty", Resp("text", "hello")) : i \in {Absent, NonStr}}
    \cup {Dict("cancel", p, Resp("text", "hello")) : p \in {"absent", "nonobj"}}
    \cup {Dict("cancel", "empty", r) : r \in {RespAbsent, RespNonObj}}
    \cup {Dict("cancel", "empty", Resp(t, "hello")) : t \in {Absent, NonStr, "other"}}
    \cup {Dict("cancel", "empty", Resp("text", c)) : c \in {Absent, NonStr}}

Text(sh, o) == [shape |-> sh, obj |-> o]

\* response.json() of a successful POST: a dict whose "response" is a
\* string, a dict whose "response" is another JSON value, a dict without
\* "response", or not a dict
StrData(t) == [isdict |-> TRUE, resp |-> [kind |-> "str", text |-> t, value |-> NonDict]]

ValueData(v) ==
    [isdict |-> TRUE,
     resp |-> [kind |-> "value", text |-> Text("plain", NonDict), value |-> v]]

NoRespData(d) ==
    [isdict |-> d,
     resp |-> [kind |-> "missing", text |-> Text("plain", NonDict), value |-> NonDict]]

ProviderData(st) ==
    {StrData(Text(sh, o)) : sh \in {"fence_obj", "brace_obj"}, o \in ProviderObjs(st)}
    \cup {StrData(Text(sh, NonDict)) : sh \in {"plain", "fence_bad", "brace_bad"}}
    \cup {ValueData(v) : v \in ProviderObjs(st) \cup {NonDict}}
    \cup {NoRespData(d) : d \in BOOLEAN}

\* largest number of leading attempts that fail with a RequestException
MaxHttpFailures == 4

HttpEnv(k, f, d) == [fails |-> k, final |-> f, data |-> d]

\* every way the HTTP exchange of one decide call can go
AllEnvs(st) ==
    {HttpEnv(k, "ok", d) : k \in 0..MaxHttpFailures, d \in ProviderData(st)}
    \cup {HttpEnv(k, "other_error", NoRespData(TRUE)) : k \in 0..MaxHttpFailures}

\* the exchanges the engine is driven with: every intent of the pool in a
\* well-formed Decision, one unparsable text, one non-object, and a
\* persistent or a transient transport failure
EngineEnvs(st) ==
    {HttpEnv(0, "ok", StrData(Text("brace_obj", Dict(i, "empty", Resp("text", "hello"))))) :
        i \in IntentPool(st)}
    \cup {HttpEnv(0, "ok", StrData(Text("plain", NonDict))),
          HttpEnv(0, "ok", ValueData(NonDict)),
          HttpEnv(1, "ok", StrData(Text("fence_obj", Dict("cancel", "object", Resp("none", "hello"))))),
          HttpEnv(MaxHttpFailures, "ok", NoRespData(TRUE)),
          HttpEnv(0, "other_error", NoRespData(TRUE))}

\* ------------------------------------------------------------ session state
VARIABLES
    state,      \* session["state"]
    ctx,        \* session["ctx"]: the counters, otp_expected and the timer map
    input,      \* session["input"]
    decision,   \* session["decision"]
    response,   \* session["response"]
    actions,    \* session["actions"]
    now,        \* session["now"]
    strict,     \* DECIDER.strict (llm.strict of the configuration)
    pc,         \* the node app.invoke runs next; "idle" between two invokes
    tk          \* what the running tick has done so far (history)

vars == <<state, ctx, input, decision, response, actions, now, strict, pc, tk>>

NoInput == [channel |-> "", signal |-> "", payload |-> ""]

Voice(p) == [channel |-> "voice", signal |-> "", payload |-> p]

System(sig) == [channel |-> "system", signal |-> sig, payload |-> ""]

\* s.get("decision", {}) of a session that has no decision yet
NoDecision ==
    [kind |-> "dict", intent |-> Absent, params |-> "absent",
     response |-> RespAbsent, meta |-> "absent"]

\* the Decision think_node writes for a device-driven state
NoOpDecision ==
    [kind |-> "dict", intent |-> "_no_op", params |-> "empty",
     response |-> Resp("none", ""), meta |-> "absent"]

\* the context of a new session
InitCtx ==
    [id_retry |-> 0, otp_fail |-> 0, otp_expected |-> "", timers |-> <<>>]

\* the history between two ticks
NoTick ==
    [st0 |-> "", in0 |-> NoInput, ctx0 |-> InitCtx, ctx1 |-> InitCtx,
     kept |-> FALSE, checked |-> <<>>, expired |-> "",
     calls |-> 0, log |-> <<>>, data |-> NoRespData(FALSE),
     sig |-> "", intent |-> "", key |-> "", branch |-> "", rule |-> Go("", <<>>),
     guards |-> 0, afters |-> 0, dispatched |-> <<>>, signals |-> <<>>]

\* the session of samples/demo_run.py and tests/test_demo_happy.py
Init ==
    /\ state = "START"
    /\ ctx = InitCtx
    /\ input = NoInput
    /\ decision = NoDecision
    /\ response = RespAbsent
    /\ actions = <<>>
    /\ now = 1
    /\ strict \in BOOLEAN
    /\ pc = "idle"
    /\ tk = NoTick

\* --------------------------------------------------------------- the caller
\* what a caller may put into session["input"] before a tick in state st
CallerInputs(st) ==
    {NoInput}
    \cup {Voice(p) : p \in Codes}
    \cup {System(sig) : sig \in DOMAIN RulesOf(st) \cup {"bogus"}}

\* the caller sets the input (or leaves the one run_actions left), may move
\* the clock forward, and calls app.invoke; it drops a session that has
\* failed or was retracted
Invoke ==
    /\ pc = "idle"
    /\ state \notin {"FAILED", "RETRACTED"}
    /\ \E inp \in CallerInputs(state) \cup {input} : input' = inp
    /\ \E t \in now..MaxNow : now' = t
    /\ pc' = "check_timeouts"
    /\ tk' = [NoTick EXCEPT !.st0 = state, !.in0 = input',
                           !.kept = (input' = input /\ now' = now),
                           !.ctx0 = ctx, !.ctx1 = ctx]
    /\ UNCHANGED <<state, ctx, decision, response, actions, strict>>

\* ------------------------------------------------------ check_timeouts_node
\* the timeout signal of an expired timer, "" when the name has none
TimeoutSignal(name) ==
    CASE name = "PRINTING"     -> "_timeout_PRINTING"
      [] name = "CARD_PICKUP"  -> "_timeout_CARD_PICKUP"
      [] name = "OTP_no_input" -> "_timeout_no_input"
      [] OTHER                 -> ""

check_timeouts_node ==
    /\ pc = "check_timeouts"
    /\ LET idle_secs == RULES.timeouts.OTP_no_input
           t1 == IF state = "OTP"
                 THEN IF ~HasTimer(ctx.timers, "OTP_no_input") /\ idle_secs # 0
                      THEN set_timer(ctx.timers, "OTP_no_input", idle_secs, now)
                      ELSE ctx.timers
                 ELSE IF TimerGet(ctx.timers, "OTP_no_input") # 0
                      THEN clear_timer(ctx.timers, "OTP_no_input")
                      ELSE ctx.timers
           expired == check_expired(t1, now)
       IN  /\ IF expired = ""
              THEN /\ ctx' = [ctx EXCEPT !.timers = t1]
                   /\ input' = input
              ELSE /\ ctx' = [ctx EXCEPT !.timers = clear_timer(t1, expired)]
                   /\ input' = IF TimeoutSignal(expired) # ""
                               THEN System(TimeoutSignal(expired)) ELSE input
           /\ tk' = [tk EXCEPT !.checked = t1, !.expired = expired]
    /\ pc' = "think"
    /\ UNCHANGED <<state, decision, response, actions, now, strict>>

\* -------------------------------------------------------------- think_node
\* s["decision"] = decision; s["response"] = decision.get("response", none)
StoreDecision(d) ==
    /\ decision' = d
    /\ response' = IF d.response.kind = "absent" THEN Resp("none", "") ELSE d.response

\* Bypass with STOCK_CHECK missing from the device-driven set
BypassButStockCheck(st) == st \in DEVICE_DRIVEN_STATES \ {"STOCK_CHECK"}

\* `if st in DEVICE_DRIVEN_STATES:`
Bypass(st) == st \in DEVICE_DRIVEN_STATES

\* a device-driven state bypasses the decider; any other state calls
\* DECIDER.decide, which may raise
Think(envs) ==
    /\ pc = "think"
    /\ IF Bypass(state)
       THEN /\ StoreDecision(NoOpDecision)
            /\ pc' = "decide"
            /\ tk' = tk
       ELSE \E env \in envs :
            LET r == decide(_allowed_intents(state), env, strict)
            IN  /\ tk' = [tk EXCEPT !.calls = @ + 1, !.log = r.log, !.data = env.data]
                /\ IF r.raised
                   THEN /\ pc' = "raised"
                        /\ UNCHANGED <<decision, response>>
                   ELSE /\ StoreDecision(r.decision)
                        /\ pc' = "decide"
    /\ UNCHANGED <<state, ctx, input, actions, now, strict>>

think_node == Think(EngineEnvs(state))

\* -------------------------------------------------------------- decide_node
\* SelectKey with the intent looked up before the signal
SelectKeyIntentFirst(rules, signal, intent) ==
    IF intent \in DOMAIN rules THEN intent
    ELSE IF signal # "" /\ signal \in DOMAIN rules THEN signal
    ELSE IF "_auto" \in DOMAIN rules THEN "_auto"
    ELSE ""

\* the trigger key the resolution selects, "" when no rule resolves
SelectKey(rules, signal, intent) ==
    IF signal # "" /\ signal \in DOMAIN rules THEN signal
    ELSE IF intent \in DOMAIN rules THEN intent
    ELSE IF "_auto" \in DOMAIN rules THEN "_auto"
    ELSE ""

\* the timer coupling of a passed transition st -> next_state
CoupleOtpTimer(timers, st, next_state, t) ==
    LET idle_secs == RULES.timeouts.OTP_no_input
    IN  IF st # next_state /\ next_state = "OTP"
        THEN IF idle_secs # 0
             THEN set_timer(timers, "OTP_no_input", idle_secs, t) ELSE timers
        ELSE IF st = "OTP" /\ next_state # "OTP"
             THEN IF TimerGet(timers, "OTP_no_input") # 0
                  THEN clear_timer(timers, "OTP_no_input") ELSE timers
             ELSE timers

\* Unmatched that leaves the action list of the session as it was
UnmatchedKeepsActions(st, c) ==
    [state |-> "FAILED", ctx |-> c, actions |-> actions,
     branch |-> "unmatched", afters |-> 0]

\* Unmatched that keeps the current state
UnmatchedStay(st, c) ==
    [state |-> st, ctx |-> c, actions |-> <<BackHome>>,
     branch |-> "unmatched", afters |-> 0]

\* `if trans is None:` after the three lookups: the default action, FAILED
Unmatched(st, c) ==
    [state |-> "FAILED", ctx |-> c, actions |-> <<BackHome>>,
     branch |-> "unmatched", afters |-> 0]

\* GuardFailed that takes the primary target when there is no fallback
GuardFailedMoves(trans, st, c) ==
    IF trans.fallback.present
    THEN [state |-> IF trans.fallback.to # "" THEN trans.fallback.to ELSE st,
          ctx |-> c, actions |-> trans.fallback.actions,
          branch |-> "fallback", afters |-> 0]
    ELSE [state |-> IF trans.to # "" THEN trans.to ELSE st,
          ctx |-> apply_after(trans.after, c), actions |-> trans.actions,
          branch |-> "guard_fail", afters |-> 0]

\* GuardFailed that runs the primary actions although there is a fallback
GuardFailedPrimary(trans, st, c) ==
    IF trans.fallback.present
    THEN [state |-> IF trans.fallback.to # "" THEN trans.fallback.to ELSE st,
          ctx |-> c, actions |-> trans.actions,
          branch |-> "fallback", afters |-> 0]
    ELSE [state |-> st, ctx |-> c, actions |-> trans.actions,
          branch |-> "guard_fail", afters |-> 0]

\* `if guard and not eval_guard(guard, ctx):` the fallback when the rule has
\* one, otherwise the primary actions in the same state
GuardFailed(trans, st, c) ==
    IF trans.fallback.present
    THEN [state |-> IF trans.fallback.to # "" THEN trans.fallback.to ELSE st,
          ctx |-> c, actions |-> trans.fallback.actions,
          branch |-> "fallback", afters |-> 0]
    ELSE [state |-> st, ctx |-> c, actions |-> trans.actions,
          branch |-> "guard_fail", afters |-> 0]

\* Passed that applies the after-effect twice
PassedTwice(trans, st, c, t) ==
    LET c1 == apply_after(trans.after, apply_after(trans.after, c))
        next_state == IF trans.to # "" THEN trans.to ELSE st
    IN  [state |-> next_state,
         ctx |-> [c1 EXCEPT !.timers = CoupleOtpTimer(c1.timers, st, next_state, t)],
         actions |-> trans.actions,
         branch |-> "pass", afters |-> IF trans.after.op # "" THEN 1 ELSE 0]

\* the guard is true or absent: after-effect, actions, target, timer coupling
Passed(trans, st, c, t) ==
    LET c1 == IF trans.after.op # "" THEN apply_after(trans.after, c) ELSE c
        next_state == IF trans.to # "" THEN trans.to ELSE st
    IN  [state |-> next_state,
         ctx |-> [c1 EXCEPT !.timers = CoupleOtpTimer(c1.timers, st, next_state, t)],
         actions |-> trans.actions,
         branch |-> "pass", afters |-> IF trans.after.op # "" THEN 1 ELSE 0]

\* the guard of the selected rule is present and evaluates false
GuardBlocks(trans, c) == trans.guard.op # "" /\ ~eval_guard(trans.guard, c)

decide_node ==
    /\ pc = "decide"
    /\ LET st == state
           state_rules == RulesOf(st)
           signal == input.signal
           intent == decision.intent
           key == SelectKey(state_rules, signal, intent)
           trans == IF key = "" THEN Go("", <<>>) ELSE state_rules[key]
           r == IF key = "" THEN Unmatched(st, ctx)
                ELSE IF GuardBlocks(trans, ctx) THEN GuardFailed(trans, st, ctx)
                ELSE Passed(trans, st, ctx, now)
       IN  /\ state' = r.state
           /\ ctx' = r.ctx
           /\ actions' = r.actions
           /\ tk' = [tk EXCEPT !.sig = signal, !.intent = intent, !.key = key,
                               !.rule = trans, !.branch = r.branch,
                               !.guards = IF key # "" /\ trans.guard.op # ""
                                          THEN @ + 1 ELSE @,
                               !.afters = @ + r.afters, !.ctx1 = r.ctx]
    /\ pc' = "run_actions"
    /\ UNCHANGED <<input, decision, response, now, strict>>

\* --------------------------------------------------------- run_actions_node
\* the `for a in s.get("actions", [])` loop from position i on; acc holds the
\* context, the emitted signals and the actions forwarded to run_action
\* `if a.get("type") == "clock" and a.get("name") == "start_timer":`
Intercepted(a) == a.type = "clock" /\ a.name = "start_timer"

\* Arms without the test of the duration
ArmsAnySecs(args) == args.state # ""

\* `if st_name and secs > 0:`
Arms(args) == args.state # "" /\ args.secs > 0

RECURSIVE RunLoop(_, _, _, _, _)
RunLoop(acts, i, acc, t, env) ==
    IF i > Len(acts) THEN acc
    ELSE LET a == acts[i]
         IN  IF Intercepted(a)
             THEN RunLoop(acts, i + 1,
                          IF Arms(a.args)
                          THEN [acc EXCEPT !.ctx.timers =
                                   set_timer(@, a.args.state, a.args.secs, t)]
                          ELSE acc,
                          t, env)
             ELSE LET out == run_action(a, acc.ctx, env)
                  IN  RunLoop(acts, i + 1,
                              [ctx |-> out.ctx,
                               signals |-> IF out.signal # ""
                                           THEN Append(acc.signals, out.signal)
                                           ELSE acc.signals,
                               dispatched |-> Append(acc.dispatched, a)],
                              t, env)

\* NextInput that takes the first emitted signal
NextInputFirst(signals) ==
    IF Len(signals) > 0 THEN System(signals[1]) ELSE NoInput

\* the input run_actions_node leaves for the next tick
NextInput(signals) ==
    IF Len(signals) > 0 THEN System(signals[Len(signals)]) ELSE NoInput

\* Rearm that ignores whether a signal was emitted
RearmAlways(signals, st, inp) == st = "OTP" /\ inp.channel = "voice"

\* the `else` of `if signals:` with its state and channel test
Rearm(signals, st, inp) ==
    Len(signals) = 0 /\ st = "OTP" /\ inp.channel = "voice"

run_actions_node ==
    /\ pc = "run_actions"
    /\ \E env \in Envs :
        LET r == RunLoop(actions, 1,
                         [ctx |-> ctx, signals |-> <<>>, dispatched |-> <<>>], now, env)
            idle_secs == RULES.timeouts.OTP_no_input
            rearm == Rearm(r.signals, state, input) /\ idle_secs # 0
        IN  /\ ctx' = IF rearm
                      THEN [r.ctx EXCEPT !.timers =
                               set_timer(@, "OTP_no_input", idle_secs, now)]
                      ELSE r.ctx
            /\ input' = NextInput(r.signals)
            /\ tk' = [tk EXCEPT !.dispatched = r.dispatched, !.signals = r.signals]
    /\ pc' = "returned"
    /\ UNCHANGED <<state, decision, response, actions, now, strict>>

\* the graph reaches END: app.invoke hands the session back to the caller
Return ==
    /\ pc = "returned"
    /\ pc' = "idle"
    /\ tk' = NoTick
    /\ UNCHANGED <<state, ctx, input, decision, response, actions, now, strict>>

Next ==
    \/ Invoke
    \/ check_timeouts_node
    \/ think_node
    \/ decide_node
    \/ run_actions_node
    \/ Return

Spec == Init /\ [][Next]_vars

TypeOK ==
    /\ state \in States
    /\ pc \in {"idle", "check_timeouts", "think", "decide", "run_actions",
             "returned", "raised"}
    /\ now \in 1..MaxNow
    /\ Len(tk.log) <= MaxAttempts

\* ------------------------------------------------- decide on its own
\* a caller hands in a new session in any state and invokes one tick, whose
\* think phase is driven with every HTTP exchange
InitDecide ==
    /\ state \in States
    /\ ctx = InitCtx
    /\ input = NoInput
    /\ decision = NoDecision
    /\ response = RespAbsent
    /\ actions = <<>>
    /\ now = 1
    /\ strict \in BOOLEAN
    /\ pc = "idle"
    /\ tk = NoTick

think_any == Think(AllEnvs(state))

NextDecide == Invoke \/ check_timeouts_node \/ think_any

SpecDecide == InitDecide /\ [][NextDecide]_vars

\* ------------------------------------------------ the timers on their own
\* a caller works on one context with the three functions of timeouts.py,
\* passing any name, duration and time
MaxTime == 3

MaxSecs == 2

TimerPool == {"X", "Y"}

\* the history of the last call
NoCall ==
    [op |-> "", name |-> "", secs |-> 0, before |-> <<>>, res |-> "", again |-> FALSE]

InitTimers ==
    /\ state = "START"
    /\ ctx = InitCtx
    /\ input = NoInput
    /\ decision = NoDecision
    /\ response = RespAbsent
    /\ actions = <<>>
    /\ now = 0
    /\ strict = TRUE
    /\ pc = "timers"
    /\ tk = NoCall

\* set_timer(ctx, name, secs, t)
SetTimerCall ==
    /\ pc = "timers"
    /\ \E name \in TimerPool, secs \in 0..MaxSecs, t \in 0..MaxTime :
          /\ now' = t
          /\ ctx' = [ctx EXCEPT !.timers =
                        set_timer(ensure_timer_ctx(@), name, secs, t)]
          /\ tk' = [NoCall EXCEPT !.op = "set", !.name = name, !.secs = secs,
                                  !.before = ctx.timers]
    /\ UNCHANGED <<state, input, decision, response, actions, strict, pc>>

\* clear_timer(ctx, name)
ClearTimerCall ==
    /\ pc = "timers"
    /\ \E name \in TimerPool :
          /\ ctx' = [ctx EXCEPT !.timers = clear_timer(ensure_timer_ctx(@), name)]
          /\ tk' = [NoCall EXCEPT !.op = "clear", !.name = name,
                                  !.before = ctx.timers]
    /\ UNCHANGED <<state, input, decision, response, actions, now, strict, pc>>

\* check_expired(ctx, t): the name it returns ("" for None) and the map it
\* leaves in the context
CheckExpiredCall ==
    /\ pc = "timers"
    /\ \E t \in 0..MaxTime :
          LET timers == ensure_timer_ctx(ctx.timers)
          IN  /\ now' = t
              /\ ctx' = [ctx EXCEPT !.timers = timers]
              /\ tk' = [NoCall EXCEPT !.op = "check", !.before = ctx.timers,
                                      !.res = check_expired(timers, t),
                                      !.again = (tk.op = "check" /\ now = t)]
    /\ UNCHANGED <<state, input, decision, response, actions, strict, pc>>

NextTimers == SetTimerCall \/ ClearTimerCall \/ CheckExpiredCall

SpecTimers == InitTimers /\ [][NextTimers]_vars

\* ------------------------------------------------ the guards on their own
\* a caller works on one context with eval_guard and apply_after, as
\* tests/test_guards.py does
MaxApplies == 3

CounterFields == {"id_retry", "otp_fail"}

\* the guard expressions: a comparison of a counter, or none
GuardExprs ==
    {Expr(f, o, v) : f \in CounterFields, o \in {"<", ">="}, v \in 0..MaxApplies}
    \cup {NoExpr}

\* the after-effects: an increment, a reset, or none
AfterExprs ==
    {Expr(f, "+=", 1) : f \in CounterFields}
    \cup {Expr(f, "=", 0) : f \in CounterFields}
    \cup {NoExpr}

\* the history of the last call, and per counter the number of increments
\* applied since it was last reset
NoGuardCall ==
    [op |-> "", expr |-> NoExpr, before |-> InitCtx, res |-> FALSE,
     n |-> [f \in CounterFields |-> 0]]

InitGuards ==
    /\ state = "START"
    /\ ctx = InitCtx
    /\ input = NoInput
    /\ decision = NoDecision
    /\ response = RespAbsent
    /\ actions = <<>>
    /\ now = 1
    /\ strict = TRUE
    /\ pc = "guards"
    /\ tk = NoGuardCall

\* eval_guard(expr, ctx): the comparison only reads the proxy
EvalGuardCall ==
    /\ pc = "guards"
    /\ \E e \in GuardExprs :
          tk' = [tk EXCEPT !.op = "eval", !.expr = e, !.before = ctx,
                           !.res = eval_guard(e, ctx)]
    /\ UNCHANGED <<state, ctx, input, decision, response, actions, now, strict, pc>>

\* apply_after(expr, ctx)
ApplyAfterCall ==
    /\ pc = "guards"
    /\ \E e \in AfterExprs :
          /\ e.op = "+=" => tk.n[e.field] < MaxApplies
          /\ ctx' = apply_after(e, ctx)
          /\ tk' = [tk EXCEPT !.op = "apply", !.expr = e, !.before = ctx,
                              !.res = FALSE,
                              !.n = CASE e.op = "+=" -> [@ EXCEPT ![e.field] = @ + 1]
                                      [] e.op = "="  -> [@ EXCEPT ![e.field] = 0]
                                      [] OTHER       -> @]
    /\ UNCHANGED <<state, input, decision, response, actions, now, strict, pc>>

NextGuards == EvalGuardCall \/ ApplyAfterCall

SpecGuards == InitGuards /\ [][NextGuards]_vars

\* ------------------------------------------------------------ properties
\* the decide phase of the running tick is over
Decided == pc \in {"run_actions", "returned"}

\* the rule table's entry for key k of the state the tick started in
RuleAt(k) == RULES.states[tk.st0][k]

\* the keys of the rule set of the state the tick started in
KeysAt == IF tk.st0 \in DOMAIN RULES.states THEN DOMAIN RULES.states[tk.st0] ELSE {}

\* the signal the decide phase read is set and is a key
SignalMatches == tk.sig # "" /\ tk.sig \in KeysAt

\* the fields an after-effect may write are those of c0, except that field
\* f holds v
SameBut(c1, c0, f, v) ==
    /\ c1.otp_expected = c0.otp_expected
    /\ \A g \in {"id_retry", "otp_fail"} : c1[g] = IF g = f THEN v ELSE c0[g]

\* the counters and the expected code of c1 are those of c0
SameFields(c1, c0) == SameBut(c1, c0, "", 0)

\* C1: in the decide phase the rule of the input signal is selected when the
\* signal is set and is a key of the state's rule set, whatever the intent;
\* otherwise the rule of the Decision's intent when the intent is a key;
\* otherwise the `_auto` rule when the state has one.
C1_Precedence ==
    Decided =>
        /\ SignalMatches => tk.key = tk.sig /\ tk.rule = RuleAt(tk.sig)
        /\ (~SignalMatches /\ tk.intent \in KeysAt) =>
                tk.key = tk.intent /\ tk.rule = RuleAt(tk.intent)
        /\ (~SignalMatches /\ tk.intent \notin KeysAt /\ "_auto" \in KeysAt) =>
                tk.key = "_auto" /\ tk.rule = RuleAt("_auto")

\* a tick whose signal and intent are two different keys of the state
C1_Witness ==
    /\ Decided
    /\ SignalMatches
    /\ tk.intent \in KeysAt
    /\ tk.intent # tk.sig
    /\ tk.key = tk.sig

\* C2: when neither the signal, nor the intent, nor `_auto` is a key of the
\* state's rules (also when the state has no rule set), the tick ends in
\* FAILED with exactly the one ui/back_home action, no guard was evaluated
\* and no after-effect was applied.
C2_Unmatched ==
    (Decided /\ ~SignalMatches /\ tk.intent \notin KeysAt /\ "_auto" \notin KeysAt) =>
        /\ state = "FAILED"
        /\ actions = <<[type |-> "ui", name |-> "back_home", args |-> NoArgs]>>
        /\ tk.guards = 0
        /\ tk.afters = 0
        /\ SameFields(tk.ctx1, tk.ctx0)
        /\ pc = "returned" => tk.dispatched = actions

\* an unmatched tick has returned from a state that has no rule set
C2_Witness ==
    /\ pc = "returned"
    /\ tk.st0 \notin DOMAIN RULES.states
    /\ "bogus" = tk.sig
    /\ state = "FAILED"

\* the decide phase selected rule k of the table and its guard is true or
\* absent on the context the tick started with
PassCase(k) ==
    /\ Decided
    /\ k \in KeysAt
    /\ tk.key = k
    /\ (RuleAt(k).guard.op = "" \/ eval_guard(RuleAt(k).guard, tk.ctx0))

\* the decide phase selected rule k and its guard is false
FailCase(k) ==
    /\ Decided
    /\ k \in KeysAt
    /\ tk.key = k
    /\ RuleAt(k).guard.op # ""
    /\ ~eval_guard(RuleAt(k).guard, tk.ctx0)

\* C3: for a selected rule whose guard is true or absent, the after-effect
\* is applied to the context exactly once, the actions are the rule's action
\* list and the new state is the rule's `to`, or the old state without a `to`.
C3_GuardPass ==
    \A k \in KeysAt : PassCase(k) =>
        LET r == RuleAt(k)
        IN  /\ tk.afters = (IF r.after.op = "" THEN 0 ELSE 1)
            /\ r.after.op = "+=" =>
                  SameBut(tk.ctx1, tk.ctx0, r.after.field,
                          tk.ctx0[r.after.field] + r.after.val)
            /\ r.after.op = "=" =>
                  SameBut(tk.ctx1, tk.ctx0, r.after.field, r.after.val)
            /\ r.after.op = "" => SameFields(tk.ctx1, tk.ctx0)
            /\ actions = r.actions
            /\ state = (IF r.to = "" THEN tk.st0 ELSE r.to)

\* a guarded rule with an after-effect and no `to` has passed
C3_Witness ==
    /\ PassCase("otp_wrong")
    /\ tk.st0 = "OTP"
    /\ tk.ctx1.otp_fail = tk.ctx0.otp_fail + 1
    /\ state = "OTP"

\* C4: for a selected rule whose guard is false and that has no fallback,
\* the state stays unchanged, the after-effect is not applied and the
\* actions are the rule's primary action list.
C4_GuardFailNoFallback ==
    \A k \in KeysAt : (FailCase(k) /\ ~RuleAt(k).fallback.present) =>
        /\ state = tk.st0
        /\ tk.afters = 0
        /\ SameFields(tk.ctx1, tk.ctx0)
        /\ actions = RuleAt(k).actions

\* the id_fail rule was selected with its retry counter used up
C4_Witness ==
    /\ FailCase("id_fail")
    /\ tk.st0 = "ID_SCAN"
    /\ tk.ctx0.id_retry = IdRetryLimit
    /\ state = "ID_SCAN"

\* C5: for a selected rule whose guard is false and that has a fallback, the
\* new state is fallback.to, the actions are fallback.actions and the
\* after-effect is not applied.
C5_GuardFailFallback ==
    \A k \in KeysAt : (FailCase(k) /\ RuleAt(k).fallback.present) =>
        /\ state = RuleAt(k).fallback.to
        /\ actions = RuleAt(k).fallback.actions
        /\ actions # RuleAt(k).actions
        /\ tk.afters = 0
        /\ SameFields(tk.ctx1, tk.ctx0)

\* the otp_wrong rule was selected with its failure counter used up
C5_Witness ==
    /\ FailCase("otp_wrong")
    /\ tk.st0 = "OTP"
    /\ state = "FAILED"

\* the running tick started in OTP with a voice turn and has dispatched
\* verify_otp
Submitted ==
    /\ pc = "returned"
    /\ tk.st0 = "OTP"
    /\ tk.in0.channel = "voice"
    /\ \E i \in 1..Len(tk.dispatched) :
          tk.dispatched[i].type = "api" /\ tk.dispatched[i].name = "verify_otp"

\* C6: from state OTP with ctx.otp_expected = c, a tick whose input is a
\* voice turn with payload c dispatches verify_otp, which compares the
\* submitted code with ctx.otp_expected and emits otp_ok as the input of the
\* next tick.
C6_CorrectCodeAccepted ==
    (Submitted /\ tk.in0.payload = tk.ctx0.otp_expected) =>
        input = [channel |-> "system", signal |-> "otp_ok", payload |-> ""]

\* the otp_wrong rule of OTP was selected by the running tick
WrongCodeTick == Decided /\ tk.st0 = "OTP" /\ tk.key = "otp_wrong"

\* C7 as stated: the tick that consumes the fifth wrong-code signal (four
\* failures counted before it) ends the session in FAILED.
C7_FifthWrongCodeFails ==
    (WrongCodeTick /\ tk.ctx0.otp_fail = OtpLimit - 1) => state = "FAILED"

\* C7 amended: a wrong code submitted in OTP leaves the signal otp_wrong;
\* each of the first five ticks that consume it counts one failure and
\* stays in OTP; the sixth, with the counter at the limit, takes the
\* fallback to FAILED without counting; otp_fail never exceeds the limit.
C7_SixthWrongCodeFails ==
    /\ ctx.otp_fail <= OtpLimit
    /\ (Submitted /\ tk.in0.payload # tk.ctx0.otp_expected) =>
          input = [channel |-> "system", signal |-> "otp_wrong", payload |-> ""]
    /\ (WrongCodeTick /\ tk.ctx0.otp_fail < OtpLimit) =>
          state = "OTP" /\ tk.ctx1.otp_fail = tk.ctx0.otp_fail + 1
    /\ (WrongCodeTick /\ tk.ctx0.otp_fail >= OtpLimit) =>
          state = "FAILED" /\ tk.ctx1.otp_fail = OtpLimit

\* the sixth wrong-code tick has ended the session in FAILED
C7_Witness ==
    /\ pc = "returned"
    /\ WrongCodeTick
    /\ tk.ctx0.otp_fail = OtpLimit
    /\ state = "FAILED"

\* the think phase of the running tick is over
Thought == pc \in {"decide", "run_actions", "returned"}

\* C8: in a tick whose state is device-driven, DecisionProvider.decide is
\* never invoked and the session's Decision is the no-op shape (intent
\* `_no_op`, empty params, response type none with empty content), whatever
\* the input is.
C8_DeviceBypass ==
    (Thought /\ tk.st0 \in {"FACE", "ID_SCAN", "NFC_READ", "STOCK_CHECK",
                            "BRANCH_SELECT", "OTP_SEND", "PRINTING", "CARD_PICKUP"}) =>
        /\ tk.calls = 0
        /\ decision.intent = "_no_op"
        /\ decision.params = "empty"
        /\ decision.response = [kind |-> "obj", type |-> "none", content |-> ""]
        /\ response = [kind |-> "obj", type |-> "none", content |-> ""]

\* a device-driven tick that was handed a voice turn
C8_Witness ==
    /\ pc = "decide"
    /\ tk.st0 = "STOCK_CHECK"
    /\ input.channel = "voice"
    /\ tk.calls = 0
    /\ decision.intent = "_no_op"

\* decide has been called in the running tick and is over
Called == pc \in {"decide", "raised"} /\ tk.calls = 1

\* C9: decide makes at most 3 HTTP attempts; no attempt follows one that
\* succeeded; if all attempts fail, decide returns the canned Decision with
\* intent "cancel", empty params, response type "text" and meta carrying
\* the error.
C9_BoundedRetry ==
    Called =>
        /\ Len(tk.log) \in 1..3
        /\ \A i \in 1..(Len(tk.log) - 1) : tk.log[i] # "ok"
        /\ tk.log[Len(tk.log)] # "ok" =>
              /\ pc = "decide"
              /\ decision.intent = "cancel"
              /\ decision.params = "empty"
              /\ decision.response.kind = "obj"
              /\ decision.response.type = "text"
              /\ decision.response.content = "service_interrupted"
              /\ decision.meta = "error"

\* three attempts were made and all three failed at transport level
C9_Witness ==
    /\ pc = "decide"
    /\ tk.calls = 1
    /\ tk.log = <<"request_error", "request_error", "request_error">>
    /\ decision.intent = "cancel"

\* the Decision schema as the claim states it
ClaimedSchemaValid(d) ==
    /\ d.kind = "dict"
    /\ d.intent \notin {Absent, NonStr}
    /\ d.params \in {"empty", "object"}
    /\ d.response.kind = "obj"
    /\ d.response.type \in {"text", "none"}
    /\ d.response.content \notin {Absent, NonStr}

\* the body of the successful POST holds no extractable JSON object, or
\* one that fails to parse, or (strict mode) one that violates the schema
InvalidOutput ==
    /\ tk.data.isdict
    /\ tk.data.resp.kind = "str"
    /\ \/ tk.data.resp.text.shape \in {"plain", "fence_bad", "brace_bad"}
       \/ strict /\ ~ClaimedSchemaValid(tk.data.resp.text.obj)

\* C10: when the provider's body has no extractable JSON object, or the
\* extracted text fails to parse, or (strict mode) the object violates the
\* Decision schema, decide returns the canned invalid-output Decision:
\* intent "cancel" and a response of type "text" carrying the message.
C10_InvalidOutputCanned ==
    (Called /\ tk.log[Len(tk.log)] = "ok" /\ InvalidOutput) =>
        /\ pc = "decide"
        /\ decision.intent = "cancel"
        /\ decision.response.type = "text"
        /\ decision.response.content = "invalid_output"

\* decide has been called in the running tick and has returned a Decision
Returned == Called /\ pc = "decide"

\* C11: in strict and in non-strict mode and for every allowed-intent list
\* (the empty one too), the Decision decide returns has an intent that is
\* in the allowed list or is "cancel", and params that is an object.
C11_AlwaysCoerce ==
    Returned =>
        /\ decision.intent \in _allowed_intents(tk.st0) \cup {"cancel"}
        /\ decision.params \in {"empty", "object"}

\* C12: whatever the HTTP call did and in both modes, decide does not raise
\* and returns a well-formed Decision: an intent, a params object and a
\* response object with a type and a content.
C12_NeverRaises ==
    Called =>
        /\ pc = "decide"
        /\ decision.kind = "dict"
        /\ decision.intent \notin {Absent, NonStr}
        /\ decision.params \in {"empty", "object"}
        /\ decision.response.kind = "obj"
        /\ decision.response.type \notin {Absent, NonStr}
        /\ decision.response.content \notin {Absent, NonStr}

\* C13: no unhandled error leaves tick: every invoke runs its four nodes to
\* END and hands back an updated session; a provider failure or a guard
\* failure degrades to a result and never stops the tick with an exception.
C13_TickReturns ==
    /\ pc # "raised"
    /\ pc = "returned" => state \in States /\ decision.kind = "dict"

\* C14: with an OTP_no_input timeout configured, at the end of every tick
\* the OTP_no_input timer is armed if and only if the session state is OTP:
\* a tick that enters OTP arms it, a tick that leaves OTP (by its primary
\* target, its fallback target or the unmatched move to FAILED) clears it.
C14_IdleTimerCoupling ==
    (pc = "returned" /\ RULES.timeouts.OTP_no_input # 0) =>
        (HasTimer(ctx.timers, "OTP_no_input") <=> state = "OTP")

\* the running tick has returned; its caller handed in a voice turn and the
\* check-timeouts phase left that input in place (no timeout signal)
VoiceTick == pc = "returned" /\ tk.in0.channel = "voice" /\ tk.sig = ""

\* C15: after any tick that processed a voice-channel input and ends in
\* state OTP, the expiry of the OTP_no_input timer is that tick's now plus
\* the configured idle seconds, whether or not its actions emitted a signal.
C15_SpokenTurnResetsIdle ==
    (VoiceTick /\ state = "OTP") =>
        TimerGet(ctx.timers, "OTP_no_input") = now + RULES.timeouts.OTP_no_input

\* C15 amended: after a tick that processed a voice-channel input and ends
\* in state OTP, the OTP_no_input timer expires at that tick's now plus the
\* idle seconds when the tick's actions emitted no signal; when they
\* emitted one, the run-actions phase leaves the timer as the decide phase
\* left it.
C15_SilentTurnResetsIdle ==
    (VoiceTick /\ state = "OTP") =>
        TimerGet(ctx.timers, "OTP_no_input") =
            IF tk.signals = <<>> THEN now + RULES.timeouts.OTP_no_input
            ELSE TimerGet(tk.ctx1.timers, "OTP_no_input")

\* a voice turn without a signal has moved the expiry of the armed timer
C15_Witness ==
    /\ VoiceTick
    /\ tk.st0 = "OTP"
    /\ state = "OTP"
    /\ tk.signals = <<>>
    /\ TimerGet(tk.ctx1.timers, "OTP_no_input") \notin {0, now + IdleSecs}
    /\ TimerGet(ctx.timers, "OTP_no_input") = now + IdleSecs

\* the names a timer of the session can carry: the idle timer and the
\* names the rule table's start_timer actions arm
TimerNames == {"OTP_no_input", "PRINTING", "CARD_PICKUP", "DONE"}

\* the check-timeouts phase of the running tick is over and found a timer
\* expired
Expiry == pc = "think" /\ tk.expired # ""

\* C16: whenever the check-timeouts phase finds an expired timer, whatever
\* its name, the tick's effective input becomes a system-channel timeout
\* signal that belongs to that name and to no other, and the timer is
\* removed from the context.
C16_ExpirySurfaces ==
    Expiry =>
        /\ input.channel = "system"
        /\ input.signal # ""
        /\ input.signal = TimeoutSignal(tk.expired)
        /\ \A n \in TimerNames \ {tk.expired} : TimeoutSignal(n) # input.signal
        /\ ~HasTimer(ctx.timers, tk.expired)

\* the check-timeouts phase of the running tick is over and found several
\* timers due
SeveralDue == pc = "think" /\ Len(ExpiredList(tk.checked, now)) >= 2

\* C17: when several timers are due in the same tick, the check-timeouts
\* phase synthesizes exactly one timeout signal and clears exactly that one
\* timer; every other due timer stays armed with its expiry unchanged, so
\* that a later tick finds it due.
C17_OneExpiryPerTick ==
    SeveralDue =>
        /\ input.channel = "system"
        /\ input.signal # ""
        /\ input.signal = TimeoutSignal(tk.expired)
        /\ ctx.timers = clear_timer(tk.checked, tk.expired)
        /\ Len(ctx.timers) = Len(tk.checked) - 1
        /\ \A t \in now..MaxNow :
              Len(ExpiredList(ctx.timers, t)) = Len(ExpiredList(tk.checked, now)) - 1

\* the times a caller may ask check_expired about, up to the latest expiry
Times == 0..(MaxTime + MaxSecs)

\* the last call was set_timer with a positive duration and left name X as
\* the only timer
SetAlone == tk.op = "set" /\ tk.secs > 0 /\ Len(ctx.timers) = 1

\* C18: after set_timer(ctx, X, s, t0) with s > 0 and X the only timer,
\* check_expired(ctx, t) returns none for every t < t0 + s and X for every
\* t >= t0 + s; a second set_timer on X overwrites the expiry; after
\* clear_timer(ctx, X) the entry is gone and check_expired returns none for
\* every t; clear_timer on an absent name changes nothing.
C18_TimerRoundTrip ==
    /\ SetAlone =>
          \A t \in Times :
             check_expired(ctx.timers, t) = IF t < now + tk.secs THEN "" ELSE tk.name
    /\ (tk.op = "set" /\ HasTimer(tk.before, tk.name)) =>
          /\ TimerGet(ctx.timers, tk.name) = now + tk.secs
          /\ Len(ctx.timers) = Len(tk.before)
          /\ \A i \in 1..Len(ctx.timers) :
                ctx.timers[i].name # tk.name => ctx.timers[i] = tk.before[i]
    /\ tk.op = "clear" => ~HasTimer(ctx.timers, tk.name)
    /\ (tk.op = "clear" /\ HasTimer(tk.before, tk.name) /\ Len(tk.before) = 1) =>
          \A t \in Times : check_expired(ctx.timers, t) = ""
    /\ (tk.op = "clear" /\ ~HasTimer(tk.before, tk.name)) => ctx.timers = tk.before

\* a second set_timer on the only timer has moved its expiry, and the timer
\* is due from the new expiry on
C18_Witness ==
    /\ SetAlone
    /\ HasTimer(tk.before, tk.name)
    /\ TimerGet(tk.before, tk.name) > now + tk.secs
    /\ check_expired(ctx.timers, now + tk.secs - 1) = ""
    /\ check_expired(ctx.timers, now + tk.secs) = tk.name

\* the last call was check_expired on a context whose only timer is e
CheckedAlone == tk.op = "check" /\ Len(tk.before) = 1

\* C19 as stated: the only entry of the context, when it has no value (none
\* or zero) or an expiry at or before now, is the name check_expired returns.
C19_NoValueOrPastDueExpired ==
    (CheckedAlone /\ (tk.before[1].exp = 0 \/ tk.before[1].exp <= now)) =>
        tk.res = tk.before[1].name

\* C19 amended: the only entry of the context is the name check_expired
\* returns exactly when it has a value (not none, not zero) and that expiry
\* is at or before now; for an entry without a value check_expired returns
\* none at every now.
C19_ValuedPastDueExpired ==
    CheckedAlone =>
        tk.res = IF tk.before[1].exp # 0 /\ tk.before[1].exp <= now
                 THEN tk.before[1].name ELSE ""

\* check_expired was asked, at a later time, about an entry with the value
\* zero and returned none
C19_Witness ==
    /\ CheckedAlone
    /\ tk.before[1].exp = 0
    /\ now > 0
    /\ tk.res = ""

\* C20: a call to check_expired leaves every timer entry (names and
\* expiries) unchanged, and a call that repeats the previous call's now
\* returns the same name as that call did.
C20_CheckNeverClears ==
    [][tk'.op = "check" =>
          /\ ctx'.timers = ctx.timers
          /\ tk'.again => tk'.res = tk.res]_vars

\* a repeated check_expired has returned the expired timer a second time,
\* and the timer is still armed
C20_Witness ==
    /\ tk.op = "check"
    /\ tk.again
    /\ tk.res # ""
    /\ HasTimer(ctx.timers, tk.res)
    /\ ctx.timers = tk.before

\* C21: when the actions dispatched in one tick emit one or more signals,
\* the input left for the next tick is the system-channel input carrying
\* the last emitted signal and nothing of the earlier ones; when no action
\* emits a signal the input left for the next tick is empty.
C21_LastSignalWins ==
    pc = "returned" =>
        IF tk.signals # <<>>
        THEN input = [channel |-> "system", signal |-> tk.signals[Len(tk.signals)],
                      payload |-> ""]
        ELSE input = [channel |-> "", signal |-> "", payload |-> ""]

\* a tick whose actions emitted two different signals has returned
C21_Witness ==
    /\ pc = "returned"
    /\ Len(tk.signals) = 2
    /\ tk.signals[1] # tk.signals[2]
    /\ input.signal = tk.signals[2]

\* the start_timer actions among the actions of the running tick that name
\* a timer and give a positive duration
ValidStarts ==
    {i \in 1..Len(actions) :
        /\ actions[i].type = "clock" /\ actions[i].name = "start_timer"
        /\ actions[i].args.state # "" /\ actions[i].args.secs > 0}

\* the names of the timers of a timer map
NamesOf(timers) == {timers[i].name : i \in 1..Len(timers)}

\* C22: an action of type clock named start_timer is never forwarded to
\* run_action; it arms the timer its args name at now + secs when the name
\* is present and secs > 0 and arms nothing otherwise; every other action
\* of the tick is dispatched exactly once, in list order.
C22_StartTimerIntercepted ==
    pc = "returned" =>
        /\ tk.dispatched =
              SelectSeq(actions,
                        LAMBDA a : ~(a.type = "clock" /\ a.name = "start_timer"))
        /\ \A i \in ValidStarts :
              TimerGet(ctx.timers, actions[i].args.state) = now + actions[i].args.secs
        /\ NamesOf(ctx.timers) \ {"OTP_no_input"} =
              (NamesOf(tk.ctx1.timers) \ {"OTP_no_input"})
                 \cup {actions[i].args.state : i \in ValidStarts}
        /\ \A n \in NamesOf(tk.ctx1.timers) \ {"OTP_no_input"} :
              n \notin {actions[i].args.state : i \in ValidStarts} =>
                 TimerGet(ctx.timers, n) = TimerGet(tk.ctx1.timers, n)

\* the otp_ok tick has armed PRINTING between two dispatched actions
C22_Witness ==
    /\ pc = "returned"
    /\ Len(actions) = 3
    /\ Len(tk.dispatched) = 2
    /\ ValidStarts = {2}
    /\ ~HasTimer(tk.ctx1.timers, "PRINTING")
    /\ TimerGet(ctx.timers, "PRINTING") = now + PrintSecs

\* the order in which one invocation of the graph visits its nodes
PhaseOrder ==
    {<<"idle", "check_timeouts">>, <<"check_timeouts", "think">>,
     <<"think", "decide">>, <<"decide", "run_actions">>,
     <<"run_actions", "returned">>, <<"returned", "idle">>}

\* C24: each invocation runs check-timeouts, think, decide and run-actions
\* exactly once each, in that order, and then returns; the session state
\* changes only in its one decide phase, decide of the provider is called at
\* most once, and the signal the decide phase resolves is read before
\* run-actions emits any, so an emitted signal is not consumed in the same
\* invocation.
C24_SingleTick ==
    [][/\ <<pc, pc'>> \in PhaseOrder
       /\ state' # state => pc = "decide"
       /\ tk'.calls <= 1
       /\ tk'.signals # <<>> => pc = "run_actions" /\ tk'.sig = tk.sig]_vars

\* C25: eval_guard returns the truth value of the comparison over the
\* named context field and leaves the context unchanged; apply_after writes
\* into the context itself, so a counter incremented n times reads n and a
\* guard evaluated afterwards compares that value; an empty guard is true
\* and an empty effect changes nothing.
C25_GuardSemantics ==
    /\ \A f \in CounterFields : ctx[f] = tk.n[f]
    /\ tk.op = "eval" =>
          /\ ctx = tk.before
          /\ tk.res = CASE tk.expr.op = "<"  -> tk.n[tk.expr.field] < tk.expr.val
                        [] tk.expr.op = ">=" -> tk.n[tk.expr.field] >= tk.expr.val
                        [] OTHER             -> TRUE
    /\ (tk.op = "apply" /\ tk.expr.op = "") => ctx = tk.before

\* after two increments the guard `otp_fail < 2` was evaluated and is false
C25_Witness ==
    /\ tk.op = "eval"
    /\ tk.expr = [field |-> "otp_fail", op |-> "<", val |-> 2]
    /\ tk.n["otp_fail"] = 2
    /\ ctx.otp_fail = 2
    /\ tk.res = FALSE

\* the signals the api actions emit: the keys of device/system rules
ApiSignals ==
    {"stock_ok", "stock_out", "otp_ok", "otp_wrong", "printed", "print_fail",
     "timeout_retract"}

\* C26: in a state that is not device-driven, a rule keyed by a
\* device/system signal (otp_ok in OTP) is selected only in a tick whose
\* input carries that signal; no intent the provider returns selects it.
C26_SignalRulesNeedSignal ==
    (Decided /\ tk.st0 \notin DEVICE_DRIVEN_STATES /\ tk.key \in ApiSignals) =>
        tk.sig = tk.key

\* C27: when run-actions of tick n leaves a signal as the session input and
\* the caller passes the returned session back unchanged, the engine neither
\* replaces nor drops the signal before the decide phase of tick n+1, and
\* the signal used for rule resolution in tick n+1 is that signal.
C27_EmittedSignalReachesNextTick ==
    (tk.kept /\ tk.in0.signal # "") =>
        /\ pc \in {"think", "decide"} => input = tk.in0
        /\ Decided => tk.sig = tk.in0.signal

C27_Witness ==
    /\ pc = "run_actions"
    /\ tk.kept
    /\ tk.in0.signal \in ApiSignals
    /\ tk.sig = tk.in0.signal
    /\ tk.key = tk.sig

\* the positive durations of the rule table: the idle timeout and the
\* seconds of the start_timer actions
Durations == {IdleSecs, PrintSecs}

\* the clock of a session whose caller has never updated session.now: it is
\* still the value the session was created with
ClockUntouched == now = 1

\* C28: no phase of a tick changes session.now, and every timer armed in the
\* tick expires at that value plus its duration; hence, while the caller
\* has never updated session.now, no timer is reported expired.
C28_EngineNeverAdvancesClock ==
    [][/\ pc # "idle" => now' = now
       /\ \A n \in TimerNames :
             (TimerGet(ctx'.timers, n) # TimerGet(ctx.timers, n)
                /\ HasTimer(ctx'.timers, n)) =>
                 \E d \in Durations : TimerGet(ctx'.timers, n) = now' + d
       /\ ClockUntouched' => tk'.expired = ""]_vars

C28_Witness ==
    /\ ClockUntouched
    /\ pc = "think"
    /\ tk.expired = ""
    /\ HasTimer(tk.checked, "PRINTING")
    /\ HasTimer(tk.checked, "CARD_PICKUP")

\* the action list the branch taken by the decide phase of this tick chose
ChosenActions ==
    CASE tk.branch = "unmatched" -> <<BackHome>>
      [] tk.branch = "fallback"  -> tk.rule.fallback.actions
      [] OTHER                   -> tk.rule.actions

\* the session's Decision is the one the think phase of this tick produced:
\* the no-op shape in a device-driven state, otherwise what decide returned
\* for the HTTP exchange of this tick
ThinkProduced ==
    IF Bypass(tk.st0)
    THEN decision = NoOpDecision
    ELSE \E env \in EngineEnvs(tk.st0) :
            LET r == decide(_allowed_intents(tk.st0), env, strict)
            IN  env.data = tk.data /\ r.log = tk.log /\ r.decision = decision

\* C29: on every branch of decide, the action list run-actions dispatches is
\* the list decide chose in the same tick, and the intent used for the
\* resolution is that of the Decision the think phase of the same tick
\* produced; nothing an earlier tick left on the session is executed again.
C29_NoStaleActionsOrDecisions ==
    /\ Thought => ThinkProduced
    /\ Decided => /\ tk.intent = decision.intent
                  /\ actions = ChosenActions
    /\ pc = "returned" =>
          tk.dispatched = SelectSeq(ChosenActions, LAMBDA a : ~Intercepted(a))

\* a tick whose Decision came from the provider took the fallback of a rule
\* and dispatched the fallback's actions
C29_Witness ==
    /\ pc = "returned"
    /\ tk.calls = 1
    /\ tk.branch = "fallback"
    /\ tk.dispatched = tk.rule.fallback.actions
    /\ tk.dispatched # tk.rule.actions

\* the body of the successful POST of this tick holds a Decision that is
\* valid against the schema, has an allowed intent and a text response
ValidTextDecision ==
    /\ Called
    /\ tk.log[Len(tk.log)] = "ok"
    /\ tk.data.isdict
    /\ tk.data.resp.kind = "str"
    /\ tk.data.resp.text.shape \in {"fence_obj", "brace_obj"}
    /\ ClaimedSchemaValid(tk.data.resp.text.obj)
    /\ tk.data.resp.text.obj.intent \in _allowed_intents(tk.st0)
    /\ tk.data.resp.text.obj.response.type = "text"

\* C30: when the provider returns a schema-valid Decision with an allowed
\* intent and a response {type: text, content: c}, decide returns that
\* response unchanged and the tick stores it as the session's response.
C30_ResponsePreserved ==
    ValidTextDecision =>
        /\ pc = "decide"
        /\ decision.response = tk.data.resp.text.obj.response
        /\ response = tk.data.resp.text.obj.response

\* the positions of the timers of the map that are due at time t: those
\* that have a value and whose expiry is at or before t
DuePositions(timers, t) ==
    {i \in 1..Len(timers) : timers[i].exp # 0 /\ timers[i].exp <= t}

\* C31: among the timers due at now, check_expired returns the one whose
\* name was inserted into the timer map last (none when no timer is due), a
\* result that depends only on the timer map and now; set_timer on a name
\* already present keeps its position, while clear_timer followed by
\* set_timer of the same name moves it to the last position.
C31_LastInsertedDueWins ==
    [][/\ tk'.op = "check" =>
             LET due == DuePositions(ctx.timers, now')
             IN  tk'.res = IF due = {} THEN ""
                           ELSE ctx.timers[CHOOSE i \in due :
                                              \A j \in due : j <= i].name
       /\ (tk'.op = "set" /\ HasTimer(ctx.timers, tk'.name)) =>
             /\ Len(ctx'.timers) = Len(ctx.timers)
             /\ TimerIndex(ctx'.timers, tk'.name) = TimerIndex(ctx.timers, tk'.name)
       /\ (tk.op = "clear" /\ tk'.op = "set" /\ tk'.name = tk.name) =>
             /\ TimerIndex(ctx'.timers, tk'.name) = Len(ctx'.timers)
             /\ SubSeq(ctx'.timers, 1, Len(ctx'.timers) - 1) = ctx.timers]_vars

\* check_expired found two timers due and returned the one inserted last,
\* which is not the one that expired first
C31_Witness ==
    /\ tk.op = "check"
    /\ Len(tk.before) = 2
    /\ DuePositions(tk.before, now) = {1, 2}
    /\ tk.before[1].exp < tk.before[2].exp
    /\ tk.res = tk.before[2].name

====
